---- MODULE Spec2Model ----
(***************************************************************************)
(* Model of the ARMPLATDB resolver of armplat_1901.py: Database.lookup,    *)
(* Database.multilookup, the dblu wrapper and the script.abort error sink. *)
(*                                                                         *)
(* A Python string is a sequence of symbols.  The symbols "{", "}", "#",   *)
(* "@" and "." are the characters the code treats specially; every other   *)
(* symbol ("a", "Smith", "18.10" ...) stands for a run of plain text that  *)
(* contains none of them.  The literals "null" and "true" are spelled out  *)
(* letter by letter.                                                       *)
(*                                                                         *)
(* A Python value is a record: t is the type ("str", "dict", "list",       *)
(* "int", "None", "True") and s, m, l or n the payload of a str, dict,     *)
(* list or int.  A dict is a function from keys (strings) to values.       *)
(***************************************************************************)
EXTENDS Integers, Sequences, FiniteSets, TLC

(* ------------------------------ bounds --------------------------------- *)

\* Depth of nested lookup calls after which the interpreter gives up with
\* RecursionError (Python's recursion limit, scaled down).
MaxDepth == 4

\* Passes of the substitution loop of one lookup call that are followed; a
\* call that is still looping after them is reported as never returning
\* (its string grows on every pass until memory runs out).
MaxPasses == 4

\* Number of resolver calls made in one run.
MaxCalls == 2

(* --------------------------- Python values ----------------------------- *)

PyStr(s)  == [t |-> "str",  s |-> s]
PyDict(m) == [t |-> "dict", m |-> m]
PyList(l) == [t |-> "list", l |-> l]
PyInt(n)  == [t |-> "int",  n |-> n]
None      == [t |-> "None"]
True      == [t |-> "True"]

EmptyDict == [k \in {} |-> None]

(* --------------------------- str operations ---------------------------- *)

\* c in s
In(c, s) == \E i \in 1..Len(s) : s[i] = c

\* s.count(c) for a one-character c
RECURSIVE Count(_, _)
Count(s, c) ==
    IF s = <<>> THEN 0
    ELSE (IF Head(s) = c THEN 1 ELSE 0) + Count(Tail(s), c)

\* s.find(c) for a one-character c: 0-based index of the first c, or -1
Find(s, c) ==
    IF In(c, s) THEN (CHOOSE i \in 1..Len(s) :
                         s[i] = c /\ \A j \in 1..(i-1) : s[j] # c) - 1
    ELSE -1

\* s[i:j] for 0 <= i, 0 <= j <= len(s)
Slice(s, i, j) == SubSeq(s, i + 1, j)

\* s.startswith(c) for a one-character c
StartsWith(s, c) == Len(s) > 0 /\ s[1] = c

\* s.replace(old, new): every non-overlapping occurrence, left to right; an
\* empty old matches before every character and at the end
RECURSIVE Replace(_, _, _)
Replace(s, old, new) ==
    IF old = <<>>
    THEN IF s = <<>> THEN new
         ELSE new \o <<Head(s)>> \o Replace(Tail(s), old, new)
    ELSE IF Len(s) < Len(old) THEN s
    ELSE IF SubSeq(s, 1, Len(old)) = old
         THEN new \o Replace(SubSeq(s, Len(old) + 1, Len(s)), old, new)
         ELSE <<Head(s)>> \o Replace(Tail(s), old, new)

\* s.split("."): never empty, "".split(".") is [""]
RECURSIVE Split(_)
Split(s) ==
    IF ~In(".", s) THEN <<s>>
    ELSE LET i == Find(s, ".")
         IN <<Slice(s, 0, i)>> \o Split(Slice(s, i + 1, Len(s)))

\* f"{{{key}}}"
Braced(key) == <<"{">> \o key \o <<"}">>

(* ------------------------- outcomes of a call -------------------------- *)

\* A call returns a value, ends in script.abort (which exits the process),
\* raises an exception nothing catches, or never returns.
Return(v) == [kind |-> "return", val |-> v]
Abort(e)  == [kind |-> "abort",  val |-> PyStr(<<e>>)]
Raise(e)  == [kind |-> "raise",  val |-> PyStr(<<e>>)]
Diverge   == [kind |-> "diverge", val |-> None]

\* The five script.abort calls of lookup, named by their message.
EInvalidPlat == "invalid plat"
ESelfRef     == "recursive lookup 111"
EImbalanced  == "imbalanced number of { and }"
ERecursive   == "recursive lookup"
ENone        == "returns None but noneAllowed is False"

(* --------------------------- Database.lookup --------------------------- *)

\* subPlat that leaves "@" in place
subPlat_NoContext(k, plat) == Return(PyStr(k))

\* subPlat without the test for "@": k.replace("@", plat) is tried on every
\* k, and a plat that is not a str makes it fail
subPlat_NoGuard(k, plat) ==
    IF plat.t = "str" THEN Return(PyStr(Replace(k, <<"@">>, plat.s)))
    ELSE Abort(EInvalidPlat)

\* subPlat without the except clause made harmless: a plat that is not a
\* str leaves k as it is
subPlat_Unguarded(k, plat) ==
    IF In("@", k) /\ plat.t = "str"
    THEN Return(PyStr(Replace(k, <<"@">>, plat.s)))
    ELSE Return(PyStr(k))

\* subPlat(k): k.replace("@", plat) if "@" in k else k; the TypeError of a
\* plat that is not a str is turned into script.abort
subPlat(k, plat) ==
    IF In("@", k)
    THEN IF plat.t = "str" THEN Return(PyStr(Replace(k, <<"@">>, plat.s)))
         ELSE Abort(EInvalidPlat)
    ELSE Return(PyStr(k))

\* assimilate with the update the wrong way round: a key already in d keeps
\* its inherited value
assimilate_KeepInherited(d, src) == d @@ src

\* assimilate(src): d.update({k:v}) for every k,v of src
assimilate(d, src) == src @@ d

\* Segment without the fallback to the aggregate d
Segment_NoAggregate(k, lookupLvl, d) ==
    IF k \in DOMAIN lookupLvl THEN lookupLvl[k] ELSE None

\* item = lookupLvl[k] if k in lookupLvl else d[k] if k in d else None
Segment(k, lookupLvl, d) ==
    IF k \in DOMAIN lookupLvl THEN lookupLvl[k]
    ELSE IF k \in DOMAIN d THEN d[k] ELSE None

\* no string is taken for a structural reference
IsHashRef_Never(item) == FALSE

\* item is a "#..." string with exactly one "{" and one "}"
IsHashRef(item) ==
    /\ item.t = "str"
    /\ StartsWith(item.s, "#")
    /\ Count(item.s, "{") = 1
    /\ Count(item.s, "}") = 1

\* item[l+1:r] for (l, r) = (item.find("{"), item.find("}"))
Search(s) == Slice(s, Find(s, "{") + 1, Find(s, "}"))

\* the token sliced one character short, without its "}"
Token_NoBrace(s) == Slice(s, Find(s, "{"), Find(s, "}"))

\* item[l:r+1] for (l, r) = (item.find("{"), item.find("}"))
Token(s) == Slice(s, Find(s, "{"), Find(s, "}") + 1)

\* the nested lookup run on the root database instead of the aggregate
NestedDb_Root(d, root) == root

\* Database(d): the document of a nested lookup is a copy of the aggregate d
NestedDb(d, root) == d

\* the pass taken for one without progress whatever it did
NoProgress_Always(item, old_item) == TRUE

\* item == old_item
NoProgress(item, old_item) == item = old_item

\* d and self are one object: what is merged into d is merged into self
SelfAfter_Aliased(self, d) == d

\* The dict self after a lookup call that ended with the aggregate d: d is a
\* new dict filled by assimilate(self), so self is as it was
SelfAfter(self, d) == self

\* a value that is no dict taken for a level without keys
Enter_NonDictEmpties(item, lookupLvl, d) ==
    IF item.t = "dict"
    THEN [lookupLvl |-> item.m, d |-> assimilate(d, item.m)]
    ELSE [lookupLvl |-> EmptyDict, d |-> EmptyDict]

\* if isinstance(item, dict): lookupLvl = item; assimilate(lookupLvl).  The
\* current level and the aggregate the next segment is resolved against.
Enter(item, lookupLvl, d) ==
    IF item.t = "dict"
    THEN [lookupLvl |-> item.m, d |-> assimilate(d, item.m)]
    ELSE [lookupLvl |-> lookupLvl, d |-> d]

\* The member of a set of one member.  A value bound to a member of a set
\* is evaluated once, where a LET definition is evaluated at every use.
The(S) == CHOOSE x \in S : TRUE

\* One iteration of the for loop of lookup: the segment k, and the current
\* level and the aggregate k is resolved against (line 1173).
Step(k, lookupLvl, d) == [k |-> k, lookupLvl |-> lookupLvl, d |-> d]

\* The for loop is left with the outcome r and the aggregate d, after the
\* iterations steps.
Left(r, d, steps) == [out |-> r, d |-> d, steps |-> steps]

\* One completed pass of the while loop of lookup: the item the pass began
\* with, the sub it substituted, whether the sub came from the retry of
\* the no-progress branch, and the item the pass ended with.
Pass(old_item, sub, retried, item) ==
    [old_item |-> old_item, sub |-> sub, retried |-> retried, item |-> item]

\* The while loop ends with the outcome r and no further pass.
Ended(r) == [out |-> r, passes |-> <<>>]

\* The pass p followed by the rest of the loop, which ends as r does.
After(p, r) == [r EXCEPT !.passes = <<p>> \o @]

RECURSIVE lookup(_, _, _, _, _, _)
RECURSIVE Walk(_, _, _, _, _, _, _)
RECURSIVE Substitute(_, _, _, _, _, _)

\* The caller's aggregate if the nested lookup walked on the caller's d
\* itself instead of the copy Database(d) makes: every mapping the nested
\* walk enters is then assimilated into the caller's aggregate.
AfterNested_Shared(d, search, root, plat, depth) ==
    LET sk == subPlat(search, plat)
    IN IF sk.kind # "return" THEN d
       ELSE Walk(Split(sk.val.s), d, d, None, root, plat, depth + 1).d

\* sub = Database(d).lookup(search, plat): Database(d) is a new dict made
\* from d, and the nested call assimilates into a d of its own, so the
\* caller's d is what it was before the call.
AfterNested(d, search, root, plat, depth) == d

\* The for loop of lookup over the segments still to consume.  The result
\* carries the item and the aggregate d the loop ended with.
Walk(segs, lookupLvl, d, item, root, plat, depth) ==
    IF segs = <<>> THEN Left(Return(item), d, <<>>)
    ELSE
      LET k    == Head(segs)
          step == Step(k, lookupLvl, d)
          \* the iterations after this one, with the level and aggregate e
          Rest(r1, e) ==
              The({ [w EXCEPT !.steps = <<step>> \o @] :
                      w \in { Walk(Tail(segs), e.lookupLvl, e.d, r1.val, root,
                                   plat, depth) } })
          \* the item of this iteration is r1, a "#" reference followed
          Found(r1) ==
              IF r1.kind # "return" THEN Left(r1, d, <<step>>)
              ELSE The({ Rest(r1, e) : e \in { Enter(r1.val, lookupLvl, d) } })
          \* lookupLvl and d hold it0 for the segment k
          Resolve(it0) ==
              IF it0.t = "None" THEN Left(Return(None), d, <<step>>)
              ELSE The({ Found(r1) :
                           r1 \in { IF IsHashRef(it0)
                                    THEN lookup(NestedDb(d, root), root,
                                                Search(it0.s), plat, FALSE,
                                                depth + 1)
                                    ELSE Return(it0) } })
      IN The({ Resolve(it0) : it0 \in { Segment(k, lookupLvl, d) } })

\* The while "{" in item loop of lookup; s is the current item.
Substitute(s, d, root, plat, depth, pass) ==
    IF ~In("{", s) THEN Ended(Return(PyStr(s)))
    ELSE IF pass >= MaxPasses THEN Ended(Diverge)
    ELSE
      LET search  == Search(s)
          replace == Token(s)
          \* no progress: the token has been looked up again in the root
          \* database and gave r2
          Retry(r2) ==
              IF r2.kind # "return" THEN Ended(r2)
              ELSE IF r2.val.t # "str" THEN Ended(Raise("TypeError"))
              ELSE The({ IF item2 = s THEN Ended(Abort(ERecursive))
                         ELSE After(Pass(s, r2.val.s, TRUE, item2),
                                    Substitute(item2, d, root, plat, depth,
                                               pass + 1)) :
                           item2 \in { Replace(s, replace, r2.val.s) } })
          \* the nested lookup of the token gave r1
          Sub(r1) ==
              IF r1.kind # "return" THEN Ended(r1)
              ELSE IF r1.val.t # "str" THEN Ended(Raise("TypeError"))
              ELSE The({ IF ~NoProgress(item1, s)
                         THEN After(Pass(s, r1.val.s, FALSE, item1),
                                    Substitute(item1,
                                               AfterNested(d, search, root, plat,
                                                           depth),
                                               root, plat, depth, pass + 1))
                         ELSE The({ Retry(r2) :
                                      r2 \in { lookup(root, root, search, plat,
                                                      FALSE, depth + 1) } }) :
                           item1 \in { Replace(s, replace, r1.val.s) } })
      IN The({ Sub(r1) :
                 r1 \in { lookup(NestedDb(d, root), root, search, plat, FALSE,
                                 depth + 1) } })

\* f"{{{key}}}" == item
IsSelfRef(key, s) == Braced(key) = s

\* "null" recognised as a prefix of item
IsNull_Prefix(s) == Len(s) >= 4 /\ SubSeq(s, 1, 4) = <<"n", "u", "l", "l">>

\* "null" == item and "true" == item
IsNull(s) == s = <<"n", "u", "l", "l">>
IsTrue(s) == s = <<"t", "r", "u", "e">>

\* the brace count left unchecked
Balanced_Unchecked(s) == TRUE

\* item.count("{")==item.count("}")
Balanced(s) == Count(s, "{") = Count(s, "}")

\* None never refused, as if every lookup had noneAllowed
NoneRefused_Never(item, noneAllowed) == FALSE

\* None refused whatever noneAllowed is
NoneRefused_Always(item, noneAllowed) == item.t = "None"

\* item is None and not noneAllowed
NoneRefused(item, noneAllowed) == item.t = "None" /\ ~noneAllowed

\* The "String items have special behaviour" block of lookup.
PostProcess(item, key, d, root, plat, depth) ==
    IF item.t # "str" THEN Return(item)
    ELSE IF IsSelfRef(key, item.s) THEN Abort(ESelfRef)
    ELSE IF IsNull(item.s) THEN Return(None)
    ELSE IF IsTrue(item.s) THEN Return(True)
    ELSE
      LET sp == subPlat(item.s, plat)
      IN IF sp.kind # "return" THEN sp
         ELSE IF ~Balanced(sp.val.s) THEN Abort(EImbalanced)
         ELSE Substitute(sp.val.s, d, root, plat, depth, 0).out

\* Database(self).lookup(key, plat, noneAllowed); root is the global
\* ARMPLATDB that dblu reads, depth the number of enclosing lookup calls.
lookup(self, root, key, plat, noneAllowed, depth) ==
    IF depth > MaxDepth THEN Raise("RecursionError")
    ELSE
      LET \* the string block gave p
          Checked(p) ==
              IF p.kind # "return" THEN p
              ELSE IF NoneRefused(p.val, noneAllowed) THEN Abort(ENone)
              ELSE p
          \* the for loop was left as w
          Walked(w) ==
              IF w.out.kind # "return" THEN w.out
              ELSE The({ Checked(p) :
                           p \in { PostProcess(w.out.val, key, w.d, root, plat,
                                               depth) } })
          \* subPlat(key) gave sk, and d is the copy d0 of self
          Split_(sk, d0) ==
              IF sk.kind # "return" THEN sk
              ELSE The({ Walked(w) :
                           w \in { Walk(Split(sk.val.s), d0, d0, None, root,
                                        plat, depth) } })
      IN The({ Split_(sk, d0) :
                 sk \in { subPlat(key, plat) },
                 d0 \in { assimilate(EmptyDict, self) } })

\* dblu(key, plat, noneAllowed) on the database db
dblu(db, key, plat, noneAllowed) == lookup(db, db, key, plat, noneAllowed, 0)

\* The aggregate d the walk of self.lookup(key, plat) ends with: the copy of
\* self made before the walk when the key cannot be split.
lookup_d(self, key, plat) ==
    LET sk == subPlat(key, plat)
        d0 == assimilate(EmptyDict, self)
    IN IF sk.kind # "return" THEN d0
       ELSE Walk(Split(sk.val.s), d0, d0, None, self, plat, 0).d

\* the key looked up without the root in front of it
JoinKey_NoRoot(root, k) == k

\* root+"."+k
JoinKey(root, k) == root \o <<".">> \o k

\* the results collected last first
Collect_Reversed(v, rest) == rest \o <<v>>

\* The list comprehension of multilookup: the result for the first key,
\* then those for the keys after it
Collect(v, rest) == <<v>> \o rest

\* self.multilookup(root, keys, plat, noneAllowed) where self is ARMPLATDB:
\* one lookup per key, in order; the first lookup that does not return
\* ends the call.
RECURSIVE multilookup(_, _, _, _, _)
multilookup(self, root, keys, plat, noneAllowed) ==
    IF keys = <<>> THEN Return(PyList(<<>>))
    ELSE
      LET key   == JoinKey(root, Head(keys))
          r     == lookup(self, self, key, plat, noneAllowed, 0)
          self1 == SelfAfter(self, lookup_d(self, key, plat))
      IN IF r.kind # "return" THEN r
         ELSE
           LET rest == multilookup(self1, root, Tail(keys), plat, noneAllowed)
           IN IF rest.kind # "return" THEN rest
              ELSE Return(PyList(Collect(r.val, rest.val.l)))

\* The dict self after self.multilookup(root, keys, plat, noneAllowed).
RECURSIVE multilookup_self(_, _, _, _, _)
multilookup_self(self, root, keys, plat, noneAllowed) ==
    IF keys = <<>> THEN self
    ELSE
      LET key   == JoinKey(root, Head(keys))
          r     == lookup(self, self, key, plat, noneAllowed, 0)
          self1 == SelfAfter(self, lookup_d(self, key, plat))
      IN IF r.kind # "return" THEN self1
         ELSE multilookup_self(self1, root, Tail(keys), plat, noneAllowed)

\* dblum(root, keys, plat, noneAllowed) on the database db
dblum(db, root, keys, plat, noneAllowed) ==
    multilookup(db, root, keys, plat, noneAllowed)

(* ------------------------------ script --------------------------------- *)

VARIABLES
    db,       \* ARMPLATDB, the document every dblu call reads
    qa_mode,  \* script.qa_mode
    aborts,   \* script.aborts
    pc,       \* "running", "exited" (sys.exit), "crashed" (uncaught
              \* exception) or "hung" (a call that never returns)
    call,     \* arguments of the latest resolver call
    ret,      \* what the latest resolver call gave its caller
    ncalls,   \* steps of the run made so far
    qa_result,\* the "QA result" end_qa reported, "none" before it ran
    hist,     \* the calls a run keeps track of, each with its outcome
    has_aborts, \* script.aborts has been assigned (script.init, line 1277)
    has_qa_t0   \* script.qa_t0 has been assigned (script.start_qa)

vars == <<db, qa_mode, aborts, pc, call, ret, ncalls, qa_result, hist,
          has_aborts, has_qa_t0>>

\* the QA result is SUCCESS whatever script.aborts holds
end_qa_AlwaysSuccess(ab) == "SUCCESS"

\* script.end_qa: 'SUCCESS' if len(script.aborts)==0 else 'FAIL'
end_qa(ab) == IF Len(ab) = 0 THEN "SUCCESS" ELSE "FAIL"

\* script.abort with a hard abort of QA mode that returns to its caller
\* as the soft one does
abort_HardReturnsInQA(e, hard) ==
    /\ aborts' = Append(aborts, e)
    /\ qa_result' = qa_result
    /\ pc' = IF qa_mode THEN pc ELSE "exited"

\* script.abort(e, hard): append to script.aborts; in QA mode a hard abort
\* runs end_qa and a soft one returns to its caller; sys.exit in every
\* case but the soft abort of QA mode.  script.aborts.append and the
\* script.qa_t0 that end_qa reads raise AttributeError when the attribute
\* has not been assigned yet.
abort(e, hard) ==
    IF ~has_aborts
    THEN pc' = "crashed" /\ UNCHANGED <<aborts, qa_result>>
    ELSE /\ aborts' = Append(aborts, e)
         /\ IF qa_mode /\ hard
            THEN IF has_qa_t0
                 THEN qa_result' = end_qa(aborts') /\ pc' = "exited"
                 ELSE qa_result' = qa_result /\ pc' = "crashed"
            ELSE /\ qa_result' = qa_result
                 /\ pc' = IF qa_mode THEN pc ELSE "exited"

(* ----------------------------- documents ------------------------------- *)

\* The examples of the ARMPLATDB documentation.
DocPeople ==
    <<"people">> :> PyDict(
        <<"surname">> :> PyStr(<<"Smith">>)
     @@ <<"john">>  :> PyDict(<<"name">> :> PyStr(<<"John">>))
     @@ <<"jane">>  :> PyDict(<<"name">> :> PyStr(<<"Jane">>))
     @@ <<"alexa">> :> PyDict(<<"name">> :> PyStr(<<"Alexa">>)
                           @@ <<"surname">> :> PyStr(<<"Smith", "-", "Doe">>)))

DocArm ==
    <<"arm">> :> PyDict(
        <<"release">> :> PyStr(<<"18", ".", "10">>)
     @@ <<"url">>   :> PyStr(<<"https://example", ".", "com/">>)
     @@ <<"title">> :> PyStr(<<"Arm Platforms Software ", "{", "release", "}">>))
 @@ <<"something">> :> PyDict(
        <<"url">> :> PyStr(<<"{", "arm", ".", "url", "}", "/path/to/",
                             "{", "arm", ".", "release", "}", "/123", ".", "zip">>))

DocThing ==
    <<"thing">> :> PyDict(
        <<"url">>   :> PyStr(<<"https://example", ".", "com">>)
     @@ <<"name0">> :> PyStr(<<"AAA">>)
     @@ <<"name">>  :> PyStr(<<"{", "name0", "}", "-", "{", "name1", "}", ".", "zip">>)
     @@ <<"variant1">> :> PyDict(<<"name1">> :> PyStr(<<"111">>))
     @@ <<"variant2">> :> PyDict(<<"name1">> :> PyStr(<<"222">>))
     @@ <<"variant3">> :> PyDict(<<"name0">> :> PyStr(<<"BBB">>)
                              @@ <<"name1">> :> PyStr(<<"333">>)))

DocFedora ==
    <<"fedora">> :> PyDict(
        <<"name">> :> PyStr(<<"Fedora Server">>)
     @@ <<"url">>  :> PyStr(<<"https://path", ".", "to", ".", "fedora/server/images/",
                              "{", "@", ".", "fedora", ".", "vsn", "}">>))
 @@ <<"p">> :> PyDict(
        <<"board">> :> PyDict(
            <<"name">> :> PyStr(<<"Example Board">>)
         @@ <<"fedora">> :> PyDict(<<"vsn">> :> PyStr(<<"27">>)))
     @@ <<"model">> :> PyDict(
            <<"name">> :> PyStr(<<"Example Model">>)
         @@ <<"fedora">> :> PyDict(<<"vsn">> :> PyStr(<<"28">>))))

DocHash ==
    <<"p">> :> PyDict(
        <<"board">> :> PyDict(
            <<"name">> :> PyStr(<<"Example board platform">>)
         @@ <<"k">> :> PyList(<<PyStr(<<"k", ".", "kernel1">>),
                                PyStr(<<"k", ".", "kernel2">>)>>))
     @@ <<"model">> :> PyDict(
            <<"name">> :> PyStr(<<"Example model platform">>)
         @@ <<"k">> :> PyStr(<<"#", "{", "p", ".", "board", ".", "k", "}">>)))

\* The entries arm and linaro of ARMPLATDB itself.
DocLinaro ==
    <<"arm">> :> PyDict(
        <<"rel">> :> PyStr(<<"19", ".", "01">>)
     @@ <<"vsn">> :> PyStr(<<"19", ".", "01c">>)
     @@ <<"cms">> :> PyStr(<<"cms", ".", "developer", ".", "arm", ".", "com">>))
 @@ <<"linaro">> :> PyDict(
        <<"lt">>  :> PyStr(<<"Linaro/ArmLT">>)
     @@ <<"url">> :> PyStr(<<"releases", ".", "linaro", ".", "org">>))

ExampleDocs == {DocPeople, DocArm, DocThing, DocFedora, DocHash, DocLinaro}

ExampleKeys == {
    <<"people", ".", "john", ".", "surname">>,
    <<"people", ".", "jane", ".", "surname">>,
    <<"people", ".", "alexa", ".", "surname">>,
    <<"arm", ".", "title">>,
    <<"something", ".", "url">>,
    <<"thing", ".", "variant1", ".", "name">>,
    <<"thing", ".", "variant2", ".", "name">>,
    <<"thing", ".", "variant3", ".", "name">>,
    <<"fedora", ".", "url">>,
    <<"p", ".", "model", ".", "k">>,
    <<"@", ".", "name">>,
    <<"arm", ".", "linaro", ".", "url">>,
    <<"linaro", ".", "url">>,
    <<"linaro", ".", "arm", ".", "linaro", ".", "lt">> }

ExamplePlats == { None, PyStr(<<"p", ".", "board">>), PyStr(<<"p", ".", "model">>) }

\* A family of small documents: the value of the root key a ranges over
\* FamValsA, that of b (and of n.m.a) over FamValsB, the rest is fixed.
FamValsA == {
    PyStr(<<"x">>),
    PyStr(<<"{", "c", "}">>),
    PyStr(<<"{", "a", "}">>),
    PyStr(<<"{", "b", "}">>),
    PyStr(<<"x", "{", "a", "}">>),
    PyStr(<<"{", "@", "}">>),
    PyStr(<<"{", "@", ".", "c", "}", "@">>),
    PyStr(<<"{", "c", "}", "@">>),
    PyStr(<<"<", "{", "c", "}", "-", "{", "b", "}", "-", "{", "c", "}", ">">>),
    PyStr(<<"n", "u", "l", "l">>),
    PyStr(<<"t", "r", "u", "e">>),
    PyStr(<<"n", "u", "l", "l", "x">>),
    PyStr(<<"#", "{", "l", "}">>),
    PyStr(<<"#", "{", "n", ".", "m", "}">>),
    PyStr(<<"#", "see ", "{", "l", "}", " here">>),
    PyStr(<<"#", "{", "@", "}">>),
    PyStr(<<"{", "z", "}", "{">>),
    PyStr(<<"{", "i", "}">>) }

FamValsB == {
    PyStr(<<"x">>),
    PyStr(<<"{", "a", "}">>),
    PyStr(<<"{", "c", "}">>),
    PyStr(<<"n", "u", "l", "l">>),
    PyStr(<<"t", "r", "u", "e">>),
    PyStr(<<"#", "{", "l", "}">>) }

Fam(va, vb) ==
    <<"a">> :> va
 @@ <<"b">> :> vb
 @@ <<"c">> :> PyStr(<<"0">>)
 @@ <<"i">> :> PyInt(5)
 @@ <<"l">> :> PyList(<<PyStr(<<"x">>), PyStr(<<"y">>)>>)
 @@ <<"n">> :> PyDict(
        <<"c">> :> PyStr(<<"1">>)
     @@ <<"b">> :> PyStr(<<"y">>)
     @@ <<"l">> :> PyList(<<PyStr(<<"z">>)>>)
     @@ <<"m">> :> PyDict(<<"c">> :> PyStr(<<"2">>) @@ <<"a">> :> vb))

FamDocs == { Fam(va, vb) : va \in FamValsA, vb \in FamValsB }

FamKeys == {
    <<"a">>, <<"b">>, <<"@">>,
    <<"n", ".", "a">>, <<"n", ".", "m", ".", "a">>, <<"n", ".", "m", ".", "b">>,
    <<"@", ".", "a">>, <<"z">>, <<"n", ".", "z">>, <<"a", ".", "c">> }

FamPlats == { None, PyStr(<<"a">>), PyStr(<<"n", ".", "m">>) }

\* Documents with an empty key, which a token whose "}" comes before its
\* "{" refers to.
DocEmptyKey(v) ==
    <<>> :> PyStr(v)
 @@ <<"a">> :> PyStr(<<"}", "{">>)

\* The same with the empty key declared again, nearer to a, with an empty
\* value.
DocEmptyKeyShadowed ==
    <<>> :> PyStr(<<"z">>)
 @@ <<"n">> :> PyDict(<<>> :> PyStr(<<>>) @@ <<"a">> :> PyStr(<<"}", "{">>))

\* The same with the empty key declared next to a only, not at the root.
DocEmptyKeyLocal ==
    <<"n">> :> PyDict(<<>> :> PyStr(<<>>) @@ <<"a">> :> PyStr(<<"}", "{">>))

EdgeDocs == { DocEmptyKey(<<>>), DocEmptyKey(<<"z">>), DocEmptyKeyShadowed,
              DocEmptyKeyLocal }

EdgeKeys == { <<"a">>, <<>>, <<"z">>, <<"n", ".", "a">> }

EdgePlats == { None, PyStr(<<"a">>) }

\* A document with references to a missing key (z) and to a key whose
\* value is "null" (u), and with a mapping w that has scalar and list keys.
DocRefs ==
    <<"a">> :> PyStr(<<"{", "z", "}">>)
 @@ <<"h">> :> PyStr(<<"#", "{", "z", "}">>)
 @@ <<"g">> :> PyStr(<<"#", "{", "u", "}">>)
 @@ <<"t">> :> PyStr(<<"{", "u", "}">>)
 @@ <<"u">> :> PyStr(<<"n", "u", "l", "l">>)
 @@ <<"w">> :> PyDict(
        <<"s">> :> PyStr(<<"1">>)
     @@ <<"t">> :> PyStr(<<"2">>)
     @@ <<"q">> :> PyList(<<PyStr(<<"x">>)>>)
     @@ <<"i">> :> PyInt(7))

\* The entries of ARMPLATDB that make p.board.unsup.tc2.oe an alias of
\* p.board.juno.legacy.oe.
DocTc2 ==
    <<"linaro">> :> PyDict(
        <<"url">> :> PyStr(<<"releases", ".", "linaro", ".", "org">>))
 @@ <<"p">> :> PyDict(
        <<"board">> :> PyDict(
            <<"juno">> :> PyDict(
                <<"pdir">> :> PyStr(<<"juno">>)
             @@ <<"legacy">> :> PyDict(
                    <<"pdir">> :> PyStr(<<"juno32">>)
                 @@ <<"oe">> :> PyDict(
                        <<"rel">> :> PyStr(<<"15", ".", "07">>)
                     @@ <<"url">> :> PyStr(<<"{", "linaro", ".", "url", "}",
                                             "/openembedded/vexpress-lsk/",
                                             "{", "rel", "}">>))))
         @@ <<"unsup">> :> PyDict(
                <<"tc2">> :> PyDict(
                    <<"pdir">> :> PyStr(<<"tc2">>)
                 @@ <<"android">> :> PyDict(
                        <<"rel">> :> PyStr(<<"6", ".", "0-15", ".", "11">>))
                 @@ <<"oe">> :> PyStr(<<"#", "{", "p", ".", "board", ".", "juno",
                                        ".", "legacy", ".", "oe", "}">>)))))

RefDocs == { DocRefs, DocTc2 }

RefKeys == {
    <<"a">>, <<"h">>, <<"g">>, <<"t">>, <<"w", ".", "a">>, <<"w", ".", "g">>,
    <<"w", ".", "t">>, <<"w", ".", "s", ".", "t">>, <<"w", ".", "q", ".", "t">>,
    <<"w", ".", "i", ".", "t">>, <<"w", ".", "s", ".", "z">>,
    <<"u", ".", "w", ".", "s">>,
    <<"p", ".", "board", ".", "unsup", ".", "tc2", ".", "oe", ".", "rel">>,
    <<"p", ".", "board", ".", "unsup", ".", "tc2", ".", "oe", ".", "url">>,
    <<"p", ".", "board", ".", "unsup", ".", "tc2", ".", "oe", ".", "pdir">>,
    <<"p", ".", "board", ".", "juno", ".", "legacy", ".", "oe", ".", "pdir">> }

RefPlats == { None, PyStr(<<"w">>) }

\* A document whose templates name keys of nested mappings, so that the
\* nested lookup of one token enters mappings the other tokens do not.
DocScope ==
    <<"c">> :> PyStr(<<"0">>)
 @@ <<"a">> :> PyStr(<<"{", "n", ".", "c", "}", "{", "c", "}">>)
 @@ <<"b">> :> PyStr(<<"{", "c", "}", "{", "n", ".", "c", "}">>)
 @@ <<"e">> :> PyStr(<<"{", "n", ".", "m", ".", "c", "}", "-",
                       "{", "n", ".", "c", "}", "-", "{", "c", "}">>)
 @@ <<"n">> :> PyDict(
        <<"c">> :> PyStr(<<"1">>)
     @@ <<"f">> :> PyStr(<<"{", "m", ".", "c", "}", "{", "c", "}">>)
     @@ <<"m">> :> PyDict(<<"c">> :> PyStr(<<"2">>)))

ScopeDocs == { DocScope }

ScopeKeys == {
    <<"a">>, <<"b">>, <<"e">>, <<"n", ".", "f">>, <<"n", ".", "a">>,
    <<"n", ".", "m", ".", "a">>, <<"n", ".", "m", ".", "e">>,
    <<"n", ".", "m", ".", "f">> }

ScopePlats == { None, PyStr(<<"n">>) }

Docs == ExampleDocs \cup FamDocs \cup EdgeDocs \cup RefDocs \cup ScopeDocs

Keys(doc) ==
    IF doc \in ExampleDocs THEN ExampleKeys
    ELSE IF doc \in EdgeDocs THEN EdgeKeys
    ELSE IF doc \in RefDocs THEN RefKeys
    ELSE IF doc \in ScopeDocs THEN ScopeKeys ELSE FamKeys

Plats(doc) ==
    IF doc \in ExampleDocs THEN ExamplePlats
    ELSE IF doc \in EdgeDocs THEN EdgePlats
    ELSE IF doc \in RefDocs THEN RefPlats
    ELSE IF doc \in ScopeDocs THEN ScopePlats ELSE FamPlats

(* ------------------------------ actions -------------------------------- *)

NoCall == [op |-> "none", key |-> <<>>, keys |-> <<>>, plat |-> None,
           noneAllowed |-> FALSE]

NoRet == [kind |-> "none", val |-> None]

Init ==
    /\ db \in Docs
    /\ qa_mode \in BOOLEAN
    /\ aborts = <<>>
    /\ pc = "running"
    /\ call = NoCall
    /\ ret = NoRet
    /\ ncalls = 0
    /\ qa_result = "none"
    /\ hist = <<>>
    /\ has_aborts = TRUE
    /\ has_qa_t0 = qa_mode

\* What the outcome r of a resolver call does to the run: a failure of
\* lookup is script.abort(...) with the default hard=True, an uncaught
\* exception ends the process, a call that never returns hangs it.
Outcome(r) ==
    CASE r.kind = "return"  -> UNCHANGED <<aborts, pc, qa_result>>
      [] r.kind = "abort"   -> abort(r.val.s[1], TRUE)
      [] r.kind = "raise"   -> pc' = "crashed" /\ UNCHANGED <<aborts, qa_result>>
      [] r.kind = "diverge" -> pc' = "hung" /\ UNCHANGED <<aborts, qa_result>>

\* One call dblu(key, plat, noneAllowed).
DbluCall(key, plat, noneAllowed) ==
    /\ pc = "running"
    /\ ncalls' = ncalls + 1
    /\ call' = [op |-> "dblu", key |-> key, keys |-> <<>>, plat |-> plat,
                noneAllowed |-> noneAllowed]
    /\ LET r == dblu(db, key, plat, noneAllowed)
       IN ret' = r /\ Outcome(r)
    /\ db' = SelfAfter(db, lookup_d(db, key, plat))
    /\ UNCHANGED <<qa_mode, has_aborts, has_qa_t0>>

\* One call dblum(root, keys, plat, noneAllowed).
DblumCall(root, keys, plat, noneAllowed) ==
    /\ pc = "running"
    /\ ncalls' = ncalls + 1
    /\ call' = [op |-> "dblum", key |-> root, keys |-> keys, plat |-> plat,
                noneAllowed |-> noneAllowed]
    /\ LET r == dblum(db, root, keys, plat, noneAllowed)
       IN ret' = r /\ Outcome(r)
    /\ db' = multilookup_self(db, root, keys, plat, noneAllowed)
    /\ UNCHANGED <<qa_mode, has_aborts, has_qa_t0>>

\* A caller runs dblu(key, plat, noneAllowed).
Dblu(key, plat, noneAllowed) ==
    /\ ncalls < MaxCalls
    /\ DbluCall(key, plat, noneAllowed)
    /\ UNCHANGED hist

Next ==
    \E key \in Keys(db), plat \in Plats(db), noneAllowed \in BOOLEAN :
        Dblu(key, plat, noneAllowed)

Spec == Init /\ [][Next]_vars

(* ------------------- runs that keep track of calls --------------------- *)

\* Calls a run of this kind makes.
MaxHistCalls == 3

CallsDocs == {
    Fam(PyStr(<<"{", "c", "}">>), PyStr(<<"x">>)),
    Fam(PyStr(<<"#", "{", "l", "}">>), PyStr(<<"{", "a", "}">>)),
    Fam(PyStr(<<"x">>), PyStr(<<"n", "u", "l", "l">>)) }

CallsKeys  == { <<"a">>, <<"n", ".", "a">>, <<"z">> }
CallsRoots == { <<"n">>, <<"n", ".", "m">> }
CallsLists == { <<<<"a">>, <<"c">>>>, <<<<"c">>, <<"a">>>>, <<<<"a">>, <<"a">>>>,
                <<<<"z">>, <<"c">>>> }

InitCalls ==
    /\ db \in CallsDocs
    /\ qa_mode = FALSE
    /\ aborts = <<>>
    /\ pc = "running"
    /\ call = NoCall
    /\ ret = NoRet
    /\ ncalls = 0
    /\ qa_result = "none"
    /\ hist = <<>>
    /\ has_aborts = TRUE
    /\ has_qa_t0 = qa_mode

\* The call just made and its outcome are kept.
Record == hist' = Append(hist, [call |-> call', ret |-> ret'])

DbluRec(key, noneAllowed) ==
    /\ ncalls < MaxHistCalls
    /\ DbluCall(key, None, noneAllowed)
    /\ Record

DblumRec(root, keys, noneAllowed) ==
    /\ ncalls < MaxHistCalls
    /\ DblumCall(root, keys, None, noneAllowed)
    /\ Record

NextCalls ==
    \/ \E key \in CallsKeys, noneAllowed \in BOOLEAN : DbluRec(key, noneAllowed)
    \/ \E root \in CallsRoots, keys \in CallsLists, noneAllowed \in BOOLEAN :
          DblumRec(root, keys, noneAllowed)

SpecCalls == InitCalls /\ [][NextCalls]_vars

(* ------------------------------ QA runs -------------------------------- *)

QADocs == {
    Fam(PyStr(<<"{", "c", "}">>), PyStr(<<"x">>)),
    Fam(PyStr(<<"{", "z", "}", "{">>), PyStr(<<"t", "r", "u", "e">>)),
    DocHash }

\* The state run_qa is in after check_empty_ws() and script.start_qa().
InitQA ==
    /\ db \in QADocs
    /\ qa_mode = TRUE
    /\ aborts = <<>>
    /\ pc = "running"
    /\ call = NoCall
    /\ ret = NoRet
    /\ ncalls = 0
    /\ qa_result = "none"
    /\ hist = <<>>
    /\ has_aborts = TRUE
    /\ has_qa_t0 = qa_mode

\* run_qa looks a key path up.
QaDblu(key, plat, noneAllowed) ==
    /\ ncalls < MaxCalls
    /\ DbluCall(key, plat, noneAllowed)
    /\ UNCHANGED hist

\* run_qa looks the keys of a platform up.
QaDblum(root, keys, plat, noneAllowed) ==
    /\ ncalls < MaxCalls
    /\ DblumCall(root, keys, plat, noneAllowed)
    /\ UNCHANGED hist

\* A download or a manifest sync of run_qa fails: script.abort(e, hard=False).
QaFetchFails(e) ==
    /\ pc = "running"
    /\ ncalls < MaxCalls
    /\ ncalls' = ncalls + 1
    /\ abort(e, FALSE)
    /\ UNCHANGED <<db, qa_mode, call, ret, hist, has_aborts, has_qa_t0>>

\* run_qa is through: return script.end_qa(), and the process exits with it.
QaEnd ==
    /\ pc = "running"
    /\ qa_mode
    /\ qa_result' = end_qa(aborts)
    /\ pc' = "exited"
    /\ UNCHANGED <<db, qa_mode, aborts, call, ret, ncalls, hist, has_aborts,
                   has_qa_t0>>

NextQA ==
    \/ \E key \in Keys(db), plat \in Plats(db), noneAllowed \in BOOLEAN :
          QaDblu(key, plat, noneAllowed)
    \/ \E root \in {<<"n">>, <<"p", ".", "model">>},
          keys \in {<<<<"k">>, <<"name">>>>, <<<<"a">>, <<"c">>>>},
          noneAllowed \in BOOLEAN :
          QaDblum(root, keys, PyStr(root), noneAllowed)
    \/ \E e \in {"HTTPError", "repo sync failed"} : QaFetchFails(e)
    \/ QaEnd

SpecQA == InitQA /\ [][NextQA]_vars

(* ------------------------- the whole process --------------------------- *)
(* __main__: script.init(), then run() or run_qa().                         *)

\* ARMPLATDB as far as script.init reads it.
MainDocs == { DocLinaro }

\* The OSError of os.chdir or os.makedirs in sh.init.
MainOSErrors == { "FileExistsError", "PermissionError" }

\* The OSError of os.remove or shutil.rmtree in check_empty_ws.
WsOSErrors == { "Directory not empty" }

\* The process starts: nothing of script has been assigned.
InitMain ==
    /\ db \in MainDocs
    /\ qa_mode \in BOOLEAN
    /\ aborts = <<>>
    /\ pc = "script.init"
    /\ call = NoCall
    /\ ret = NoRet
    /\ ncalls = 0
    /\ qa_result = "none"
    /\ hist = <<>>
    /\ has_aborts = FALSE
    /\ has_qa_t0 = FALSE

\* script.init up to its log.info banner: dblu('arm.rel'), then
\* dblu('arm.vsn').
InitBanner ==
    /\ pc = "script.init"
    /\ LET rel == dblu(db, <<"arm", ".", "rel">>, None, FALSE)
           vsn == dblu(db, <<"arm", ".", "vsn">>, None, FALSE)
           key == IF rel.kind = "return" THEN <<"arm", ".", "vsn">>
                  ELSE <<"arm", ".", "rel">>
           r   == IF rel.kind = "return" THEN vsn ELSE rel
       IN /\ call' = [op |-> "dblu", key |-> key, keys |-> <<>>,
                      plat |-> None, noneAllowed |-> FALSE]
          /\ ret' = r
          /\ IF r.kind = "return"
             THEN pc' = "script.aborts" /\ UNCHANGED <<aborts, qa_result>>
             ELSE Outcome(r)
    /\ db' = SelfAfter(db, lookup_d(db, <<"arm", ".", "vsn">>, None))
    /\ UNCHANGED <<qa_mode, ncalls, hist, has_aborts, has_qa_t0>>

\* script.aborts = []
InitAborts ==
    /\ pc = "script.aborts"
    /\ aborts' = <<>>
    /\ has_aborts' = TRUE
    /\ pc' = "sh.init"
    /\ UNCHANGED <<db, qa_mode, call, ret, ncalls, qa_result, hist, has_qa_t0>>

\* sh.init() goes through, its check_empty_ws() included, and __main__
\* calls run() or run_qa().
ShInit ==
    /\ pc = "sh.init"
    /\ pc' = IF qa_mode THEN "run_qa" ELSE "running"
    /\ UNCHANGED <<db, qa_mode, aborts, call, ret, ncalls, qa_result, hist,
                   has_aborts, has_qa_t0>>

\* os.chdir or sh.mkdir of sh.init raises OSError: script.abort(e).
ShInitFails(e) ==
    /\ pc = "sh.init"
    /\ abort(e, TRUE)
    /\ UNCHANGED <<db, qa_mode, call, ret, ncalls, hist, has_aborts, has_qa_t0>>

\* The user refuses to have the workspace emptied: sys.exit(0).
WsRefused ==
    /\ pc \in {"sh.init", "run_qa"}
    /\ pc' = "exited"
    /\ UNCHANGED <<db, qa_mode, aborts, call, ret, ncalls, qa_result, hist,
                   has_aborts, has_qa_t0>>

\* check_empty_ws() of run_qa goes through.
QaCheckWs ==
    /\ pc = "run_qa"
    /\ pc' = "start_qa"
    /\ UNCHANGED <<db, qa_mode, aborts, call, ret, ncalls, qa_result, hist,
                   has_aborts, has_qa_t0>>

\* sh.rm or sh.rmdir of the check_empty_ws() of run_qa raises OSError.
QaCheckWsFails(e) ==
    /\ pc = "run_qa"
    /\ abort(e, TRUE)
    /\ UNCHANGED <<db, qa_mode, call, ret, ncalls, hist, has_aborts, has_qa_t0>>

\* script.start_qa()
start_qa ==
    /\ pc = "start_qa"
    /\ has_qa_t0' = TRUE
    /\ pc' = "running"
    /\ UNCHANGED <<db, qa_mode, aborts, call, ret, ncalls, qa_result, hist,
                   has_aborts>>

\* run() is through: return 0, and the process exits with it.
RunEnd ==
    /\ pc = "running"
    /\ ~qa_mode
    /\ pc' = "exited"
    /\ UNCHANGED <<db, qa_mode, aborts, call, ret, ncalls, qa_result, hist,
                   has_aborts, has_qa_t0>>

NextMain ==
    \/ InitBanner
    \/ InitAborts
    \/ ShInit
    \/ \E e \in MainOSErrors : ShInitFails(e)
    \/ WsRefused
    \/ QaCheckWs
    \/ \E e \in WsOSErrors : QaCheckWsFails(e)
    \/ start_qa
    \/ \E key \in Keys(db), plat \in Plats(db), noneAllowed \in BOOLEAN :
          QaDblu(key, plat, noneAllowed)
    \/ \E e \in {"HTTPError", "repo sync failed"} : QaFetchFails(e)
    \/ QaEnd
    \/ RunEnd

SpecMain == InitMain /\ [][NextMain]_vars

(* ------------------ what the documentation promises ------------------- *)
(* The notions below are written from the ARMPLATDB documentation, without *)
(* the aggregate of lookup, and are what the results are compared with.    *)

\* The latest resolver call has been made.
Called == call # NoCall

Front(segs) == SubSeq(segs, 1, Len(segs) - 1)
Last(segs)  == segs[Len(segs)]

\* The node reached from v by descending through the keys segs, None when
\* a key is missing or a node on the way is not a mapping.
RECURSIVE Descend(_, _)
Descend(v, segs) ==
    IF segs = <<>> THEN v
    ELSE IF v.t = "dict" /\ Head(segs) \in DOMAIN v.m
         THEN Descend(v.m[Head(segs)], Tail(segs))
         ELSE None

\* P names a mapping node of the document.
IsMappingPath(doc, P) == Descend(PyDict(doc), P).t = "dict"

\* The value of key k at the mapping node P: P's own, else that of the
\* nearest ancestor of P (the root last) that defines k, else None.
RECURSIVE Inherited(_, _, _)
Inherited(doc, P, k) ==
    LET node == Descend(PyDict(doc), P)
    IN IF k \in DOMAIN node.m THEN node.m[k]
       ELSE IF P = <<>> THEN None
       ELSE Inherited(doc, Front(P), k)

\* The keys visible at the mapping node P, nearest declaration first.
Visible(doc, P) ==
    [k \in UNION { DOMAIN Descend(PyDict(doc), SubSeq(P, 1, n)).m : n \in 0..Len(P) }
        |-> Inherited(doc, P, k)]

Specials == {"{", "}", "#", "@", "."}

\* A string without any special character that is not a reserved literal,
\* or a value that is not a string: lookup has nothing to resolve in it.
Plain(v) ==
    IF v.t = "str"
    THEN /\ \A i \in 1..Len(v.s) : v.s[i] \notin Specials
         /\ v.s # <<"n", "u", "l", "l">>
         /\ v.s # <<"t", "r", "u", "e">>
    ELSE v.t \in {"dict", "list", "int"}

\* The looked-up key path once "@" stands for the context.
ContextOk(s)  == ~In("@", s) \/ call.plat.t = "str"
InContext(s)  == IF In("@", s) THEN Replace(s, <<"@">>, call.plat.s) ELSE s
CallSegs      == Split(InContext(call.key))
CallP         == Front(CallSegs)
CallK         == Last(CallSegs)

\* The latest call names key CallK of a mapping node CallP of the document.
CallOnNode ==
    /\ Called
    /\ ContextOk(call.key)
    /\ IsMappingPath(db, CallP)

\* The value the document holds for the looked-up key path, by inheritance.
CallValue == Inherited(db, CallP, CallK)

(* ------------------------------- claims -------------------------------- *)

\* C1 - Inheritance override: a lookup of key k at mapping node P returns
\* P's own value for k if P defines k, and otherwise the value of the
\* nearest ancestor of P (the root included) that defines k; the examples
\* of the documentation give "Smith", "Smith" and "Smith-Doe".
C1_InheritanceOverride ==
    /\ (CallOnNode /\ CallValue.t # "None" /\ Plain(CallValue))
          => ret = Return(CallValue)
    /\ (Called /\ db = DocPeople) =>
          /\ call.key = <<"people", ".", "john", ".", "surname">>
                => ret = Return(PyStr(<<"Smith">>))
          /\ call.key = <<"people", ".", "jane", ".", "surname">>
                => ret = Return(PyStr(<<"Smith">>))
          /\ call.key = <<"people", ".", "alexa", ".", "surname">>
                => ret = Return(PyStr(<<"Smith", "-", "Doe">>))

\* C1 witness: n.m.b is looked up where n.m has no b, n has b = "y" and the
\* root has another b, and the nearest ancestor's "y" is returned.
C1_Witness ==
    /\ db \in FamDocs
    /\ db[<<"b">>] # PyStr(<<"y">>)
    /\ call.key = <<"n", ".", "m", ".", "b">>
    /\ ret = Return(PyStr(<<"y">>))

\* A string that is one token "{x}" over a single key x.
IsOneToken(v) ==
    /\ v.t = "str"
    /\ Len(v.s) = 3
    /\ v.s[1] = "{" /\ v.s[3] = "}" /\ v.s[2] \notin Specials

\* C2 - Backward/forward references: a template inherited from an ancestor
\* is resolved with the keys visible at the node the looked-up path names,
\* not at the node that declares the template.
C2_ForwardBackwardReference ==
    /\ (/\ CallOnNode
        /\ IsOneToken(CallValue)
        /\ Inherited(db, CallP, <<CallValue.s[2]>>).t = "str"
        /\ Plain(Inherited(db, CallP, <<CallValue.s[2]>>)))
          => ret = Return(Inherited(db, CallP, <<CallValue.s[2]>>))
    /\ (Called /\ db = DocThing) =>
          /\ call.key = <<"thing", ".", "variant1", ".", "name">>
                => ret = Return(PyStr(<<"AAA", "-", "111", ".", "zip">>))
          /\ call.key = <<"thing", ".", "variant2", ".", "name">>
                => ret = Return(PyStr(<<"AAA", "-", "222", ".", "zip">>))
          /\ call.key = <<"thing", ".", "variant3", ".", "name">>
                => ret = Return(PyStr(<<"BBB", "-", "333", ".", "zip">>))

\* C2 witness: the root template a = "{c}" is looked up as n.a and gives
\* the "1" of n.c, not the "0" of the root's c.
C2_Witness ==
    /\ db \in FamDocs
    /\ db[<<"a">>] = PyStr(<<"{", "c", "}">>)
    /\ call.key = <<"n", ".", "a">>
    /\ ret = Return(PyStr(<<"1">>))

\* Every "{" of s opens a token that is closed before the next "{", and
\* there is no "}" outside a token.
RECURSIVE WellFormed(_)
WellFormed(s) ==
    IF ~In("{", s) THEN ~In("}", s)
    ELSE LET l == Find(s, "{")
             r == Find(s, "}")
         IN /\ r > l
            /\ ~In("{", Slice(s, l + 1, r))
            /\ WellFormed(Slice(s, r + 1, Len(s)))

\* The resolved value of key path X for a reference met at mapping node P.
RefValue(X, P) == lookup(Visible(db, P), db, X, call.plat, FALSE, 1)

\* Every token of the well-formed string s resolves to a string at P.
RECURSIVE TokensResolve(_, _)
TokensResolve(s, P) ==
    IF ~In("{", s) THEN TRUE
    ELSE LET X == Slice(s, Find(s, "{") + 1, Find(s, "}"))
         IN /\ RefValue(X, P).kind = "return"
            /\ RefValue(X, P).val.t = "str"
            /\ TokensResolve(Slice(s, Find(s, "}") + 1, Len(s)), P)

\* The well-formed string s with every token replaced by its resolved value
\* and the text around the tokens kept.
RECURSIVE Expand(_, _)
Expand(s, P) ==
    IF ~In("{", s) THEN s
    ELSE LET l == Find(s, "{")
             r == Find(s, "}")
         IN Slice(s, 0, l) \o RefValue(Slice(s, l + 1, r), P).val.s
               \o Expand(Slice(s, r + 1, Len(s)), P)

\* The value found for the looked-up key is a template: a string that is
\* neither a reserved literal nor a "#" string, with well-formed tokens.
CallIsTemplate ==
    /\ CallOnNode
    /\ CallValue.t = "str"
    /\ ~StartsWith(CallValue.s, "#")
    /\ CallValue.s # <<"n", "u", "l", "l">>
    /\ CallValue.s # <<"t", "r", "u", "e">>
    /\ ContextOk(CallValue.s)
    /\ WellFormed(InContext(CallValue.s))

\* C3 - Template substitution: when the value found for a key is a string
\* with balanced braces whose tokens resolve, lookup returns the string with
\* every token {X} replaced by the resolved value of X and the text outside
\* the tokens unchanged; a returned string holds no "{" and no "}".
C3_TemplateSubstitution ==
    /\ (/\ CallIsTemplate
        /\ ~In("@", call.key) /\ ~In("@", CallValue.s)
        /\ TokensResolve(CallValue.s, CallP))
          => ret = Return(PyStr(Expand(CallValue.s, CallP)))
    /\ (Called /\ ret.kind = "return" /\ ret.val.t = "str")
          => ~In("{", ret.val.s) /\ ~In("}", ret.val.s)
    /\ (Called /\ db = DocArm /\ call.key = <<"arm", ".", "title">>)
          => ret = Return(PyStr(<<"Arm Platforms Software ", "18", ".", "10">>))

\* C3 witness: the three-token template "<{c}-{b}-{c}>" of the root key a,
\* looked up as n.a, comes back with all three tokens replaced.
C3_Witness ==
    /\ db \in FamDocs
    /\ db[<<"a">>] = PyStr(<<"<", "{", "c", "}", "-", "{", "b", "}", "-", "{", "c", "}", ">">>)
    /\ call.key = <<"n", ".", "a">>
    /\ ret = Return(PyStr(<<"<", "1", "-", "y", "-", "1", ">">>))

\* C4 - Context substitution: every "@" of the looked-up key path and of a
\* reference's key path stands for the caller's context when the key path
\* is resolved, so fedora.url resolves per platform ("27" for p.board,
\* "28" for p.model).
C4_ContextSubstitution ==
    /\ (/\ CallOnNode
        /\ In("@", call.key)
        /\ CallValue.t # "None" /\ Plain(CallValue))
          => ret = Return(CallValue)
    /\ (/\ CallIsTemplate
        /\ In("@", call.key) \/ In("@", CallValue.s)
        /\ TokensResolve(InContext(CallValue.s), CallP))
          => ret = Return(PyStr(Expand(InContext(CallValue.s), CallP)))
    /\ (Called /\ db = DocFedora /\ call.key = <<"fedora", ".", "url">>) =>
          /\ call.plat = PyStr(<<"p", ".", "board">>)
                => ret = Return(PyStr(<<"https://path", ".", "to", ".",
                                        "fedora/server/images/", "27">>))
          /\ call.plat = PyStr(<<"p", ".", "model">>)
                => ret = Return(PyStr(<<"https://path", ".", "to", ".",
                                        "fedora/server/images/", "28">>))

\* C4 witness: fedora.url looked up for p.model ends in "28".
C4_Witness ==
    /\ db = DocFedora
    /\ call.key = <<"fedora", ".", "url">>
    /\ call.plat = PyStr(<<"p", ".", "model">>)
    /\ ret = Return(PyStr(<<"https://path", ".", "to", ".",
                            "fedora/server/images/", "28">>))

\* v is exactly "#{X}" for a key path X.
IsStructRef(v) ==
    /\ v.t = "str"
    /\ Len(v.s) >= 4
    /\ v.s[1] = "#" /\ v.s[2] = "{" /\ v.s[Len(v.s)] = "}"
    /\ \A i \in 3..(Len(v.s) - 1) : v.s[i] \notin {"{", "}", "#"}

StructRefPath(v) == SubSeq(v.s, 3, Len(v.s) - 1)

\* What key path X names among the keys visible at mapping node P.
Target(X, P) == Descend(PyDict(Visible(db, P)), Split(InContext(X)))

\* C5 - Structural reference: when the value of the looked-up key is the
\* string "#{X}" and X names a Mapping or a Sequence, lookup returns that
\* Mapping or Sequence itself, not a string.
C5_StructuralReference ==
    /\ (/\ CallOnNode
        /\ IsStructRef(CallValue)
        /\ ContextOk(StructRefPath(CallValue))
        /\ Target(StructRefPath(CallValue), CallP).t \in {"dict", "list"})
          => ret = Return(Target(StructRefPath(CallValue), CallP))
    /\ (Called /\ db = DocHash /\ call.key = <<"p", ".", "model", ".", "k">>)
          => ret = Return(PyList(<<PyStr(<<"k", ".", "kernel1">>),
                                   PyStr(<<"k", ".", "kernel2">>)>>))

\* C5 witness: p.model.k = "#{p.board.k}" gives the list of p.board.k.
C5_Witness ==
    /\ db = DocHash
    /\ call.key = <<"p", ".", "model", ".", "k">>
    /\ ret.kind = "return"
    /\ ret.val.t = "list"
    /\ Len(ret.val.l) = 2

\* w occurs in s
Contains(s, w) == \E i \in 1..(Len(s) - Len(w) + 1) : SubSeq(s, i, i + Len(w) - 1) = w

\* C6 as stated - Reserved literals: a key whose stored value is exactly
\* "null" makes lookup return None, one whose value is exactly "true" makes
\* it return True, and a longer string containing these words is returned
\* as a string.
C6_ReservedLiterals_AsStated ==
    CallOnNode =>
      /\ CallValue = PyStr(<<"n", "u", "l", "l">>) => ret = Return(None)
      /\ CallValue = PyStr(<<"t", "r", "u", "e">>) => ret = Return(True)
      /\ (/\ CallValue.t = "str" /\ Plain(CallValue)
          /\ Contains(CallValue.s, <<"n", "u", "l", "l">>)
             \/ Contains(CallValue.s, <<"t", "r", "u", "e">>))
            => ret = Return(CallValue)

\* C6 - Reserved literals: a key whose stored value is exactly "null"
\* resolves to None, which lookup returns when noneAllowed is true and
\* refuses with the "returns None" abort when it is false; a value that is
\* exactly "true" makes lookup return True; a longer string containing
\* these words is returned as a string.
C6_ReservedLiterals ==
    CallOnNode =>
      /\ CallValue = PyStr(<<"n", "u", "l", "l">>)
            => ret = IF call.noneAllowed THEN Return(None) ELSE Abort(ENone)
      /\ CallValue = PyStr(<<"t", "r", "u", "e">>) => ret = Return(True)
      /\ (/\ CallValue.t = "str" /\ Plain(CallValue)
          /\ Contains(CallValue.s, <<"n", "u", "l", "l">>)
             \/ Contains(CallValue.s, <<"t", "r", "u", "e">>))
            => ret = Return(CallValue)

\* C6 witness: the key a whose value is "null" has been looked up with
\* noneAllowed and None came back.
C6_Witness ==
    /\ db \in FamDocs
    /\ db[<<"a">>] = PyStr(<<"n", "u", "l", "l">>)
    /\ call.key = <<"a">>
    /\ call.noneAllowed
    /\ ret = Return(None)

\* C7 - Absence policy: when the final value of a lookup is None (no value
\* for the key at the node or any ancestor, or the "null" literal), lookup
\* aborts with "returns None" if noneAllowed is false, and returns None
\* with nothing added to script.aborts if it is true.
C7_AbsencePolicy ==
    /\ (CallOnNode /\ (CallValue.t = "None" \/ CallValue = PyStr(<<"n", "u", "l", "l">>)))
          => IF call.noneAllowed
             THEN ret = Return(None) /\ aborts = <<>> /\ pc = "running"
             ELSE ret = Abort(ENone) /\ aborts = <<ENone>> /\ pc = "exited"
    /\ (Called /\ ret = Return(None)) => call.noneAllowed

\* C7 witness: the missing key n.z has been looked up with noneAllowed and
\* None came back without an abort.
C7_Witness ==
    /\ db \in FamDocs
    /\ call.key = <<"n", ".", "z">>
    /\ call.noneAllowed
    /\ ret = Return(None)
    /\ aborts = <<>>

\* C8 - Malformed reference: when the string found for the key has, after
\* "@" substitution, different numbers of "{" and "}", lookup aborts with
\* the "imbalanced" message whatever noneAllowed is, and before any token
\* is looked up.
C8_MalformedReference ==
    (/\ CallOnNode
     /\ CallValue.t = "str"
     /\ ContextOk(CallValue.s)
     /\ Count(InContext(CallValue.s), "{") # Count(InContext(CallValue.s), "}"))
       => ret = Abort(EImbalanced) /\ aborts = <<EImbalanced>> /\ pc = "exited"

\* C8 witness: "{z}{", whose token z is no key of the document, has been
\* looked up with noneAllowed and the abort is the "imbalanced" one.
C8_Witness ==
    /\ db \in FamDocs
    /\ db[<<"a">>] = PyStr(<<"{", "z", "}", "{">>)
    /\ call.key = <<"n", ".", "a">>
    /\ call.noneAllowed
    /\ ret = Abort(EImbalanced)

\* C9 - Termination and cycle detection: every lookup on a document whose
\* keys are identifiers ends by returning or by an abort, never by running
\* out of stack; a cycle through two keys (a = "{b}", b = "{a}") and a
\* self-reference inside a longer string (a = "x{a}") end in the "recursive
\* lookup" abort instead of recursing without bound.
C9_TerminationAndCycleDetection ==
    (Called /\ db \in FamDocs) =>
      /\ ret # Raise("RecursionError")
      /\ ret # Diverge
      /\ (/\ db[<<"a">>] = PyStr(<<"{", "b", "}">>)
          /\ db[<<"b">>] = PyStr(<<"{", "a", "}">>)
          /\ call.key \in {<<"a">>, <<"b">>})
            => ret = Abort(ERecursive)
      /\ (/\ db[<<"a">>] = PyStr(<<"x", "{", "a", "}">>)
          /\ call.key = <<"a">>)
            => ret = Abort(ERecursive)

\* C10 - Self-reference: when the string found for key path K is, after
\* "@" substitution with the context, exactly "{K}", lookup aborts with
\* "recursive lookup 111"; also when K or the value is written with "@".
C10_SelfReference ==
    (/\ CallOnNode
     /\ CallValue.t = "str"
     /\ ContextOk(CallValue.s)
     /\ InContext(CallValue.s) = <<"{">> \o InContext(call.key) \o <<"}">>)
       => ret = Abort(ESelfRef)

\* C11 - Invalid context: with no context (plat is None), a lookup whose
\* key path contains "@", whose string value found (a template, a plain
\* string or a structural reference "#{X}") contains "@", or whose value is
\* a token naming a string that contains "@", aborts with "invalid plat" whatever noneAllowed is; and no
\* string returned by a lookup without context contains "@".
C11_InvalidContext ==
    /\ (Called /\ call.plat = None /\ In("@", call.key))
          => ret = Abort(EInvalidPlat) /\ aborts = <<EInvalidPlat>> /\ pc = "exited"
    /\ (/\ CallOnNode
        /\ call.plat = None
        /\ CallValue.t = "str"
        /\ In("@", CallValue.s)
        /\ (CallValue.s[1] # "#" \/ IsStructRef(CallValue)))
          => ret = Abort(EInvalidPlat) /\ aborts = <<EInvalidPlat>> /\ pc = "exited"
    /\ (/\ CallOnNode
        /\ call.plat = None
        /\ IsOneToken(CallValue)
        /\ Inherited(db, CallP, <<CallValue.s[2]>>).t = "str"
        /\ In("@", Inherited(db, CallP, <<CallValue.s[2]>>).s))
          => ret = Abort(EInvalidPlat)
    /\ (Called /\ call.plat = None /\ ret.kind = "return" /\ ret.val.t = "str")
          => ~In("@", ret.val.s)

\* C11 witness: b = "{a}" has been looked up without context and with
\* noneAllowed where a = "{@}", and the abort is the "invalid plat" one.
C11_Witness ==
    /\ db \in FamDocs
    /\ db[<<"a">>] = PyStr(<<"{", "@", "}">>)
    /\ db[<<"b">>] = PyStr(<<"{", "a", "}">>)
    /\ call.key = <<"b">>
    /\ call.plat = None
    /\ call.noneAllowed
    /\ ret = Abort(EInvalidPlat)

CallKeyAt(i) == call.key \o <<".">> \o call.keys[i]

\* C14 - multilookup: a dblum call that returns gives a list as long as
\* keys whose i-th element is what dblu returns for root.keys[i] with the
\* same plat and noneAllowed, in the order of keys and with duplicates
\* kept; a dblum call that does not return ends as the dblu of the first
\* key whose lookup does not return.
C14_Multilookup ==
    (Called /\ call.op = "dblum") =>
      /\ ret.kind = "return" =>
            /\ ret.val.t = "list"
            /\ Len(ret.val.l) = Len(call.keys)
            /\ \A i \in DOMAIN call.keys :
                  Return(ret.val.l[i])
                    = dblu(db, CallKeyAt(i), call.plat, call.noneAllowed)
      /\ ret.kind # "return" =>
            \E i \in DOMAIN call.keys :
              /\ ret = dblu(db, CallKeyAt(i), call.plat, call.noneAllowed)
              /\ \A j \in 1..(i - 1) :
                    dblu(db, CallKeyAt(j), call.plat, call.noneAllowed).kind
                      = "return"

\* C14 witness: dblum("n", ["a", "c"]) where a = "#{l}" has returned the
\* list of n and then the c of n, in that order.
C14_Witness ==
    /\ call.op = "dblum"
    /\ call.key = <<"n">>
    /\ call.keys = <<<<"a">>, <<"c">>>>
    /\ db[<<"a">>] = PyStr(<<"#", "{", "l", "}">>)
    /\ ret = Return(PyList(<<PyList(<<PyStr(<<"z">>)>>), PyStr(<<"1">>)>>))

RECURSIVE SegmentRule(_, _, _, _)
SegmentRule(segs, level, agg, found) ==
    IF segs = <<>> THEN found
    ELSE
      LET k == Head(segs)
          v == IF k \in DOMAIN level THEN level[k]
               ELSE IF k \in DOMAIN agg THEN agg[k]
               ELSE None
      IN IF v.t = "None" THEN None
         ELSE IF v.t = "str" /\ v.s # <<>> /\ v.s[1] = "#" THEN [t |-> "hash"]
         ELSE IF v.t = "dict"
              THEN SegmentRule(Tail(segs), v.m, v.m @@ agg, v)
              ELSE SegmentRule(Tail(segs), level, agg, v)

\* C16 - Segment resolution rule: a lookup finds the value the segment rule
\* gives: it is returned when it is plain, and the lookup ends as not found
\* (None with noneAllowed, the "returns None" abort without) when a segment
\* is neither in the current level nor in the aggregate; so root-level
\* keys are a fallback at every depth, and arm.linaro.url is linaro.url.
C16_SegmentResolution ==
    /\ (Called /\ ContextOk(call.key)) =>
          LET v == SegmentRule(CallSegs, db, db, None)
          IN /\ v.t = "None" =>
                   ret = IF call.noneAllowed THEN Return(None) ELSE Abort(ENone)
             /\ (v.t # "hash" /\ Plain(v)) => ret = Return(v)
             /\ (v.t \notin {"hash", "None", "str"}) => ret.kind = "return"
    /\ (Called /\ db = DocLinaro
          /\ call.key \in { <<"arm", ".", "linaro", ".", "url">>,
                            <<"linaro", ".", "url">> })
          => ret = Return(PyStr(<<"releases", ".", "linaro", ".", "org">>))

\* C16 witness: arm.linaro.url has been looked up in the arm and linaro
\* entries of ARMPLATDB, where arm has no key linaro, and the url of the
\* root-level linaro came back.
C16_Witness ==
    /\ db = DocLinaro
    /\ call.key = <<"arm", ".", "linaro", ".", "url">>
    /\ ret = Return(PyStr(<<"releases", ".", "linaro", ".", "org">>))

\* C17 - Structural-reference form: a string that starts with "#" but is
\* not exactly "#{X}" (it has text between the "#" and the "{" or after the
\* "}") is not resolved as a structural reference: a lookup that finds it
\* and returns gives a string, never the Mapping or Sequence the braces
\* name.
C17_StructuralReferenceForm ==
    (/\ CallOnNode
     /\ CallValue.t = "str"
     /\ CallValue.s # <<>>
     /\ CallValue.s[1] = "#"
     /\ ~IsStructRef(CallValue)
     /\ ret.kind = "return")
       => ret.val.t = "str"

\* C18 - Scope of references: the key path X of a structural reference
\* "#{X}" and of a token "{X}" found for a key of mapping node P is resolved
\* by a lookup on the keys visible at P (the root keys overlaid by those of
\* every mapping on the way to P) with the context of the call, and its
\* outcome is that of the call; so a = "#{l}" and a = "{c}" looked up as n.a
\* give the l and the c of n, and looked up as a those of the root.
C18_ScopeOfReferences ==
    /\ (CallOnNode /\ IsStructRef(CallValue)) =>
          LET r == RefValue(StructRefPath(CallValue), CallP)
          IN (r.kind # "return" \/ r.val.t # "str") => ret = r
    /\ (CallOnNode /\ IsOneToken(CallValue)
          /\ CallValue.s # <<"{">> \o call.key \o <<"}">>) =>
          LET r == RefValue(<<CallValue.s[2]>>, CallP)
          IN (r.kind # "return" \/ r.val.t = "str") => ret = r
    /\ (Called /\ db \in FamDocs /\ db[<<"a">>] = PyStr(<<"#", "{", "l", "}">>)) =>
          /\ call.key = <<"n", ".", "a">> => ret = Return(PyList(<<PyStr(<<"z">>)>>))
          /\ call.key = <<"a">>
                => ret = Return(PyList(<<PyStr(<<"x">>), PyStr(<<"y">>)>>))
    /\ (Called /\ db \in FamDocs /\ db[<<"a">>] = PyStr(<<"{", "c", "}">>)) =>
          /\ call.key = <<"n", ".", "a">> => ret = Return(PyStr(<<"1">>))
          /\ call.key = <<"a">> => ret = Return(PyStr(<<"0">>))
    /\ (Called /\ db \in FamDocs /\ db[<<"a">>] = PyStr(<<"#", "{", "@", "}">>)
          /\ call.key = <<"a">> /\ call.plat = PyStr(<<"n", ".", "m">>))
          => ret = Return(db[<<"n">>].m[<<"m">>])

\* C18 witness: a = "#{l}" has been looked up as n.a, where n declares its
\* own l, and the list of n came back instead of the root's.
C18_Witness ==
    /\ db \in FamDocs
    /\ db[<<"a">>] = PyStr(<<"#", "{", "l", "}">>)
    /\ call.key = <<"n", ".", "a">>
    /\ ret = Return(PyList(<<PyStr(<<"z">>)>>))

\* C19 - Two-tier retry: when a pass of the substitution loop leaves the
\* string as it was, the token is looked up once more in the root database
\* instead of the aggregate: the lookup aborts with "recursive lookup" when
\* the root's value changes nothing either, ends as the root lookup does
\* when that fails, and goes on with the next pass when the root's value
\* changes the string; a pass that changed the string makes no root lookup,
\* so a template whose tokens are declared below the root only is resolved.
C19_TwoTierRetry ==
    /\ (Called /\ db = DocEmptyKey(<<>>) /\ call.key = <<"a">>)
          => ret = Abort(ERecursive)
    /\ (Called /\ db = DocEmptyKeyLocal /\ call.key = <<"n", ".", "a">>)
          => ret = Abort(ENone)
    /\ (Called /\ db = DocEmptyKeyShadowed /\ call.key = <<"n", ".", "a">>)
          => ret = Diverge
    /\ (Called /\ db = DocThing
          /\ call.key = <<"thing", ".", "variant1", ".", "name">>)
          => ret = Return(PyStr(<<"AAA", "-", "111", ".", "zip">>))
    /\ (Called /\ db \in FamDocs /\ db[<<"a">>] = PyStr(<<"{", "b", "}">>)
          /\ db[<<"b">>] = PyStr(<<"x">>) /\ call.key = <<"n", ".", "a">>)
          => ret = Return(PyStr(<<"y">>))

\* C19 witness: a = "}{" has been looked up where the empty key has the
\* empty string as its value in the aggregate and in the root database:
\* neither lookup changed the string and the abort is "recursive lookup".
C19_Witness ==
    /\ db = DocEmptyKey(<<>>)
    /\ call.key = <<"a">>
    /\ ret = Abort(ERecursive)
    /\ aborts = <<ERecursive>>

\* C20 - String form of referenced values: when the value found for a key
\* is a token "{X}" and X resolves to a value that is not a string (True
\* from "true", a number, a Mapping or a Sequence), the lookup returns a
\* string, the token replaced by the string form of that value.
C20_StringFormOfReferencedValues ==
    (/\ CallOnNode
     /\ IsOneToken(CallValue)
     /\ CallValue.s # <<"{">> \o call.key \o <<"}">>
     /\ RefValue(<<CallValue.s[2]>>, CallP).kind = "return"
     /\ RefValue(<<CallValue.s[2]>>, CallP).val.t \in {"True", "int", "dict", "list"})
       => ret.kind = "return" /\ ret.val.t = "str"

\* s has an "@" outside every pair of braces / inside a pair of braces.
AtOutsideBraces(s) ==
    \E i \in 1..Len(s) :
        s[i] = "@" /\ Count(SubSeq(s, 1, i), "{") = Count(SubSeq(s, 1, i), "}")

AtInsideBraces(s) ==
    \E i \in 1..Len(s) :
        s[i] = "@" /\ Count(SubSeq(s, 1, i), "{") # Count(SubSeq(s, 1, i), "}")

\* C21 - Where "@" is substituted: when the string found for a key has an
\* "@" in its plain text, outside any braces, a string the lookup returns
\* still has that "@", and when the string has no "@" inside braces a lookup
\* without context does not abort with "invalid plat".
C21_WhereContextIsSubstituted ==
    (/\ CallOnNode
     /\ CallValue.t = "str"
     /\ AtOutsideBraces(CallValue.s)
     /\ CallValue.s[1] # "#") =>
       /\ (ret.kind = "return" /\ ret.val.t = "str") => In("@", ret.val.s)
       /\ (call.plat = None /\ ~AtInsideBraces(CallValue.s))
             => ret # Abort(EInvalidPlat)

\* The single key x when v is the token "{x}" or the structural reference
\* "#{x}" over one key, <<>> otherwise.
RefKey(v) ==
    IF IsOneToken(v) THEN <<v.s[2]>>
    ELSE IF IsStructRef(v) /\ Len(v.s) = 4 /\ v.s[3] \notin Specials THEN <<v.s[3]>>
    ELSE <<>>

\* C22 - noneAllowed covers only the outermost key: when the value found is a
\* token "{x}" or a structural reference "#{x}" and x is missing at the
\* node and all its ancestors, or has the value "null" there, the lookup
\* aborts with the "returns None" message and exits although it was called
\* with noneAllowed.
C22_NoneAllowedOutermostOnly ==
    (/\ CallOnNode
     /\ call.noneAllowed
     /\ CallValue.t = "str"
     /\ RefKey(CallValue) # <<>>
     /\ RefKey(CallValue) # call.key
     /\ Inherited(db, CallP, RefKey(CallValue))
           \in {None, PyStr(<<"n", "u", "l", "l">>)})
       => ret = Abort(ENone) /\ aborts = <<ENone>> /\ pc = "exited"

\* C22 witness: h = "#{z}", whose z is no key of the document, has been
\* looked up with noneAllowed and the lookup aborted.
C22_Witness ==
    /\ db = DocRefs
    /\ call.key = <<"h">>
    /\ call.noneAllowed
    /\ ret = Abort(ENone)
    /\ pc = "exited"

\* The latest call names P.alias.k: alias is a key visible at the mapping
\* node P whose value is "#{X}", and X names a Mapping among the keys
\* visible at P.
AliasP     == Front(CallP)
AliasValue == Inherited(db, AliasP, Last(CallP))
AliasTarget == Target(StructRefPath(AliasValue), AliasP)

CallThroughAlias ==
    /\ Called
    /\ ContextOk(call.key)
    /\ Len(CallSegs) >= 2
    /\ IsMappingPath(db, AliasP)
    /\ IsStructRef(AliasValue)
    /\ ContextOk(StructRefPath(AliasValue))
    /\ AliasTarget.t = "dict"

\* C23 - Structural reference in the middle of a path: when the value found
\* at the segment before the last is "#{X}" and X names a Mapping M, the
\* walk goes on inside M: a plain value M has for the last segment is
\* returned; p.board.unsup.tc2.oe.rel is the rel of p.board.juno.legacy.oe.
C23_StructuralReferenceMidPath ==
    /\ (/\ CallThroughAlias
        /\ CallK \in DOMAIN AliasTarget.m
        /\ Plain(AliasTarget.m[CallK]))
          => ret = Return(AliasTarget.m[CallK])
    /\ (Called /\ db = DocTc2
          /\ call.key = <<"p", ".", "board", ".", "unsup", ".", "tc2", ".",
                          "oe", ".", "rel">>)
          => ret = Return(PyStr(<<"15", ".", "07">>))
    /\ (Called /\ db = DocTc2
          /\ call.key = <<"p", ".", "board", ".", "unsup", ".", "tc2", ".",
                          "oe", ".", "url">>)
          => ret = Return(PyStr(<<"releases", ".", "linaro", ".", "org",
                                  "/openembedded/vexpress-lsk/",
                                  "15", ".", "07">>))

\* C23 witness: p.board.unsup.tc2.oe.rel has been looked up, tc2.oe being
\* "#{p.board.juno.legacy.oe}", and the rel of the legacy oe came back, not
\* the rel of tc2's android.
C23_Witness ==
    /\ db = DocTc2
    /\ call.key = <<"p", ".", "board", ".", "unsup", ".", "tc2", ".", "oe", ".", "rel">>
    /\ ret = Return(PyStr(<<"15", ".", "07">>))

\* The latest call names P.s.t: s is a key visible at the mapping node P
\* whose value is a scalar or a list ("#" strings apart).
ScalarP     == Front(CallP)
ScalarValue == Inherited(db, ScalarP, Last(CallP))

CallThroughScalar ==
    /\ Called
    /\ ContextOk(call.key)
    /\ Len(CallSegs) >= 2
    /\ IsMappingPath(db, ScalarP)
    /\ ScalarValue.t \in {"str", "int", "list"}
    /\ ScalarValue.t = "str" => (ScalarValue.s = <<>> \/ ScalarValue.s[1] # "#")

\* C24 - Segments after a non-mapping value: when the segment before the
\* last resolves to a scalar or a list at the mapping node P, the last
\* segment t is resolved at P as if the scalar's segment were not there: a
\* plain value visible at P for t is returned and a t visible nowhere ends
\* as not found; w.s.t gives what w.t gives.
C24_SegmentsAfterNonMapping ==
    /\ CallThroughScalar =>
          LET v == Inherited(db, ScalarP, CallK)
          IN /\ Plain(v) => ret = Return(v)
             /\ v.t = "None" =>
                   ret = IF call.noneAllowed THEN Return(None) ELSE Abort(ENone)
    /\ (Called /\ db = DocRefs
          /\ call.key \in { <<"w", ".", "s", ".", "t">>, <<"w", ".", "q", ".", "t">>,
                            <<"w", ".", "i", ".", "t">>, <<"w", ".", "t">> })
          => ret = Return(PyStr(<<"2">>))

\* C24 witness: w.q.t has been looked up where q is a list of w, and the t
\* of w came back.
C24_Witness ==
    /\ db = DocRefs
    /\ call.key = <<"w", ".", "q", ".", "t">>
    /\ ret = Return(PyStr(<<"2">>))

\* No string of the value v, at any depth of its mappings, contains "@".
RECURSIVE NoAt(_)
NoAt(v) ==
    IF v.t = "str" THEN ~In("@", v.s)
    ELSE IF v.t = "dict" THEN \A k \in DOMAIN v.m : NoAt(v.m[k])
    ELSE TRUE

\* C25 - Context non-interference: when neither the looked-up key path nor
\* any string of the document contains "@", the outcome of the lookup is
\* the one the same lookup has with every other context and with none; the
\* same holds for the key b of a document whose only "@" is in the value
\* of a, which the lookup of b does not read.
C25_ContextNonInterference ==
    /\ (Called /\ ~In("@", call.key) /\ NoAt(PyDict(db))) =>
          \A p \in Plats(db) : ret = dblu(db, call.key, p, call.noneAllowed)
    /\ (/\ Called
        /\ db \in FamDocs
        /\ call.key = <<"b">>
        /\ db[<<"b">>] # PyStr(<<"{", "a", "}">>)) =>
          \A p \in Plats(db) : ret = dblu(db, call.key, p, call.noneAllowed)

\* C25 witness: a = "{c}" has been looked up as n.a with the context n.m in
\* a document without "@", and the c of n came back.
C25_Witness ==
    /\ db \in FamDocs
    /\ db[<<"a">>] = PyStr(<<"{", "c", "}">>)
    /\ NoAt(PyDict(db))
    /\ call.key = <<"n", ".", "a">>
    /\ call.plat = PyStr(<<"n", ".", "m">>)
    /\ ret = Return(PyStr(<<"1">>))

\* The offset of the last "{" of s, -1 when there is none.
FindLast(s, c) ==
    IF ~In(c, s) THEN -1
    ELSE (CHOOSE i \in 1..Len(s) :
              s[i] = c /\ \A j \in (i + 1)..Len(s) : s[j] # c) - 1

\* The well-formed string s resolved from its last token to its first:
\* each step replaces every occurrence of the last token by its value
\* resolved at the mapping node P.
RECURSIVE ExpandFromRight(_, _)
ExpandFromRight(s, P) ==
    IF ~In("{", s) THEN s
    ELSE LET l   == FindLast(s, "{")
             r   == l + 1 + Find(Slice(s, l + 1, Len(s)), "}")
             sub == RefValue(Slice(s, l + 1, r), P).val.s
         IN ExpandFromRight(Replace(s, Slice(s, l, r + 1), sub), P)

\* The value found for the looked-up key is a template of several tokens
\* that all resolve at the mapping node of the call.
CallIsMultiToken ==
    /\ CallIsTemplate
    /\ Count(InContext(CallValue.s), "{") >= 2
    /\ TokensResolve(InContext(CallValue.s), CallP)

CallLoop ==
    Substitute(InContext(CallValue.s), Visible(db, CallP), db, call.plat, 0, 0)

\* The latest call reaches the while loop with a string whose every "{" is
\* before its "}": the string is a template and not the looked-up key in
\* braces, which lookup refuses before the loop.
CallEntersLoop ==
    /\ CallIsTemplate
    /\ call.op = "dblu"
    /\ CallValue.s # <<"{">> \o call.key \o <<"}">>

\* C27 - Progress of substitution: in the loop of a lookup whose string has
\* every "{" before its "}", no substituted sub contains "{", every pass
\* ends with fewer "{" than it began with, no pass goes through the retry
\* of the no-progress branch, the loop does not end in "recursive lookup",
\* and it makes at most as many passes as the string had "{"; the outcome
\* of the call is the one this loop ends with.
C27_ProgressOfSubstitution ==
    CallEntersLoop =>
        LET run == CallLoop
            n   == Len(run.passes)
        IN /\ \A i \in 1..n :
                /\ ~In("{", run.passes[i].sub)
                /\ Count(run.passes[i].item, "{")
                      < Count(run.passes[i].old_item, "{")
                /\ ~run.passes[i].retried
           /\ n <= Count(InContext(CallValue.s), "{")
           /\ run.out.kind # "diverge"
           /\ run.out # Abort(ERecursive)
           /\ ret = run.out

\* C27 witness: "<{c}-{b}-{c}>" with b = "{c}" has been resolved in two
\* passes, one for {c} and one for {b}.
C27_Witness ==
    /\ CallEntersLoop
    /\ Count(InContext(CallValue.s), "{") = 3
    /\ Len(CallLoop.passes) = 2
    /\ CallLoop.passes[2].sub = <<"0">>
    /\ ret = Return(PyStr(<<"<", "0", "-", "0", "-", "0", ">">>))

\* The messages of the aborts made with hard=False.
SoftMessages == {"HTTPError", "repo sync failed"}

\* A step made a call of script.abort.
AbortCalled == aborts' # aborts

C29_ErrorSinkInitialisation ==
    [][/\ AbortCalled => has_aborts
       /\ (pc = "script.init" => ret'.kind = "return")
       /\ (AbortCalled /\ qa_mode /\ Last(aborts') \notin SoftMessages) =>
             /\ qa_result' = "FAIL"
             /\ pc' = "exited"
       /\ qa_result' # qa_result => has_qa_t0
      ]_vars

\* The iterations of the for loop of the latest call.
CallSteps == Walk(CallSegs, db, db, None, db, call.plat, 0).steps

\* k resolved against the current level, else against the aggregate.
LevelElseAggregate(k, lookupLvl, d) ==
    IF k \in DOMAIN lookupLvl THEN lookupLvl[k]
    ELSE IF k \in DOMAIN d THEN d[k] ELSE None

\* k resolved against the aggregate alone.
AggregateAlone(k, d) == IF k \in DOMAIN d THEN d[k] ELSE None

\* C30 - Aggregate invariant: the walk starts with the root as level and as
\* aggregate, and at every step of the walk every key of the current level
\* is a key of the aggregate with the same value, so that the segment of
\* the step, and any other key, resolved against the level and else the
\* aggregate is what the aggregate alone gives.
C30_AggregateInvariant ==
    (Called /\ call.op = "dblu" /\ ContextOk(call.key)) =>
        LET steps == CallSteps
        IN /\ steps[1].lookupLvl = db
           /\ steps[1].d = db
           /\ \A i \in 1..Len(steps) :
                /\ \A k \in DOMAIN steps[i].lookupLvl :
                      /\ k \in DOMAIN steps[i].d
                      /\ steps[i].d[k] = steps[i].lookupLvl[k]
                /\ \A k \in {steps[i].k} \cup DOMAIN steps[i].d :
                      LevelElseAggregate(k, steps[i].lookupLvl, steps[i].d)
                         = AggregateAlone(k, steps[i].d)

\* C30 witness: n.m.a has been looked up; at the third step the level is
\* the mapping m, whose c is not the c of the root, and the aggregate has
\* the c of m and still the i of the root.
C30_Witness ==
    /\ db \in FamDocs
    /\ call.op = "dblu"
    /\ call.key = <<"n", ".", "m", ".", "a">>
    /\ Len(CallSteps) = 3
    /\ CallSteps[3].lookupLvl[<<"c">>] = PyStr(<<"2">>)
    /\ db[<<"c">>] = PyStr(<<"0">>)
    /\ CallSteps[3].d[<<"c">>] = PyStr(<<"2">>)
    /\ CallSteps[3].d[<<"i">>] = PyInt(5)
    /\ <<"i">> \notin DOMAIN CallSteps[3].lookupLvl

====
